---- MODULE Spec2Model ----
(***************************************************************************)
(* Reservation manager (src/app.py): a Flask application over one table of *)
(* Reservation rows, with two session flags (admin_logged_in,              *)
(* readonly_mode) gating the handlers.                                     *)
(*                                                                         *)
(* One action per HTTP request, and one for the server clock.  Spec follows   *)
(* the requests of two sessions with the clock standing still; SpecClock   *)
(* lets the clock advance between the requests of one session.             *)
(*                                                                         *)
(* A request is handled to completion before *)
(* the next one starts (requests of different sessions interleave, the     *)
(* statements inside one handler do not).  The rows of the table are the   *)
(* committed rows: what a handler assigns to a loaded object reaches the   *)
(* table only through db.session.commit().                                 *)
(*                                                                         *)
(* Text that the code converts (dates, integers) is a sequence of          *)
(* one-character strings, so that parsing and formatting are computed.     *)
(***************************************************************************)
EXTENDS Integers, Sequences, FiniteSets, TLC

\* ------------------------------------------------------------------ bounds
\* Largest primary key the table hands out (the add handler is disabled
\* once the next key would exceed it).
MaxId == 2

\* Latest reading of the server clock that is followed.
MaxClock == 1

\* ------------------------------------------------------------ text helpers
Digits == {"0", "1", "2", "3", "4", "5", "6", "7", "8", "9"}

DigitVal(c) ==
    CASE c = "0" -> 0 [] c = "1" -> 1 [] c = "2" -> 2 [] c = "3" -> 3
      [] c = "4" -> 4 [] c = "5" -> 5 [] c = "6" -> 6 [] c = "7" -> 7
      [] c = "8" -> 8 [] c = "9" -> 9

DigitChar(n) ==
    CASE n = 0 -> "0" [] n = 1 -> "1" [] n = 2 -> "2" [] n = 3 -> "3"
      [] n = 4 -> "4" [] n = 5 -> "5" [] n = 6 -> "6" [] n = 7 -> "7"
      [] n = 8 -> "8" [] n = 9 -> "9"

IsDigits(s) == Len(s) > 0 /\ \A i \in 1..Len(s) : s[i] \in Digits

RECURSIVE DigitsVal(_)
DigitsVal(s) ==
    IF Len(s) = 0 THEN 0
    ELSE DigitsVal(SubSeq(s, 1, Len(s) - 1)) * 10 + DigitVal(s[Len(s)])

\* A raised exception / a converted value.
Raise == [ok |-> FALSE, val |-> 0]
Ok(v) == [ok |-> TRUE, val |-> v]

\* --------------------------------------------------------------- int(text)
\* Python int(str): surrounding whitespace is stripped, one optional sign,
\* then decimal digits, single underscores allowed between digits.
RECURSIVE LStrip(_)
LStrip(s) == IF Len(s) > 0 /\ s[1] = " " THEN LStrip(Tail(s)) ELSE s

RECURSIVE RStrip(_)
RStrip(s) ==
    IF Len(s) > 0 /\ s[Len(s)] = " " THEN RStrip(SubSeq(s, 1, Len(s) - 1)) ELSE s

Unsigned(s) == IF Len(s) > 0 /\ s[1] \in {"+", "-"} THEN Tail(s) ELSE s

WellGrouped(s) ==
    /\ Len(s) > 0
    /\ \A i \in 1..Len(s) : s[i] \in Digits \cup {"_"}
    /\ s[1] # "_" /\ s[Len(s)] # "_"
    /\ \A i \in 1..(Len(s) - 1) : ~(s[i] = "_" /\ s[i + 1] = "_")

ParseInt(text) ==
    LET t == RStrip(LStrip(text))
        u == Unsigned(t)
        d == SelectSeq(u, LAMBDA c : c # "_")
    IN  IF ~WellGrouped(u) THEN Raise
        ELSE IF Len(t) > 0 /\ t[1] = "-" THEN Ok(0 - DigitsVal(d))
        ELSE Ok(DigitsVal(d))

\* ------------------------------------- datetime.strptime(text, '%Y-%m-%d')
\* A date is <<year, month, day>>.
IsLeap(y) == (y % 4 = 0 /\ y % 100 # 0) \/ y % 400 = 0

DaysInMonth(y, m) ==
    IF m = 2 THEN (IF IsLeap(y) THEN 29 ELSE 28)
    ELSE IF m \in {4, 6, 9, 11} THEN 30 ELSE 31

\* %m and %d take one or two digits (%d also a space and a digit).
ShortField(s) ==
    IF Len(s) = 2 /\ s[1] = " " THEN Tail(s) ELSE s

ParseDate(text) ==
    LET dashes == {i \in 1..Len(text) : text[i] = "-"}
    IN  IF Cardinality(dashes) # 2 THEN Raise
        ELSE
          LET p  == CHOOSE i \in dashes : \A j \in dashes : i <= j
              q  == CHOOSE i \in dashes : \A j \in dashes : j <= i
              ys == SubSeq(text, 1, p - 1)
              ms == SubSeq(text, p + 1, q - 1)
              ds == ShortField(SubSeq(text, q + 1, Len(text)))
          IN  IF ~(Len(ys) = 4 /\ IsDigits(ys)) THEN Raise
              ELSE IF ~(Len(ms) \in {1, 2} /\ IsDigits(ms)) THEN Raise
              ELSE IF ~(Len(ds) \in {1, 2} /\ IsDigits(ds)) THEN Raise
              ELSE
                LET y == DigitsVal(ys)
                    m == DigitsVal(ms)
                    d == DigitsVal(ds)
                IN  IF y >= 1 /\ m \in 1..12 /\ d >= 1 /\ d <= DaysInMonth(y, m)
                    THEN Ok(<<y, m, d>>)
                    ELSE Raise

\* a strictly before b in the calendar.
DateLT(a, b) ==
    \/ a[1] < b[1]
    \/ a[1] = b[1] /\ a[2] < b[2]
    \/ a[1] = b[1] /\ a[2] = b[2] /\ a[3] < b[3]

\* Fault: the comparison written strict, so that equal dates pass as "before".
DateLE_Strict(a, b) == DateLT(a, b)

\* date.__le__
DateLE(a, b) ==
    \/ a[1] < b[1]
    \/ a[1] = b[1] /\ a[2] < b[2]
    \/ a[1] = b[1] /\ a[2] = b[2] /\ a[3] <= b[3]

\* date.isoformat(): YYYY-MM-DD, zero padded.
RECURSIVE Pad(_, _)
Pad(n, w) ==
    IF w = 0 THEN <<>> ELSE Append(Pad(n \div 10, w - 1), DigitChar(n % 10))

IsoFormat(d) == Pad(d[1], 4) \o <<"-">> \o Pad(d[2], 2) \o <<"-">> \o Pad(d[3], 2)

\* ------------------------------------------------------------------ inputs
Sessions == {"s1", "s2"}

Ids == 1..MaxId

ADMIN_PASSWORD == "Jezera2017"

Passwords == {ADMIN_PASSWORD, "guess"}

T(y, m, d) == y \o <<"-">> \o m \o <<"-">> \o d

Y2024 == <<"2", "0", "2", "4">>
Y2023 == <<"2", "0", "2", "3">>

\* A submitted form: the keys present and their text.
NoVals ==
    [guest_name |-> "", platform |-> "", check_in |-> <<>>, check_out |-> <<>>,
     adults |-> <<>>, children |-> <<>>, special_requests |-> "", notes |-> "",
     password |-> ""]

NoForm == [present |-> {}, val |-> NoVals]

PasswordForm(p) ==
    [present |-> {"password"}, val |-> [NoVals EXCEPT !.password = p]]

ReservationKeys ==
    {"guest_name", "platform", "check_in", "check_out", "adults", "children",
     "special_requests", "notes"}

\* The scenario of the specification: 2024-03-01 .. 2024-03-05, no free text.
FormA ==
    [present |-> ReservationKeys \ {"special_requests", "notes"},
     val |-> [NoVals EXCEPT !.guest_name = "A. Smith", !.platform = "Airbnb",
                !.check_in = T(Y2024, <<"0", "3">>, <<"0", "1">>),
                !.check_out = T(Y2024, <<"0", "3">>, <<"0", "5">>),
                !.adults = <<"2">>, !.children = <<"0">>]]

\* Leap day to 1 March, unpadded fields, padded and signed integers.
FormB ==
    [present |-> ReservationKeys,
     val |-> [NoVals EXCEPT !.guest_name = "B. Jones", !.platform = "Booking",
                !.check_in = T(Y2024, <<"2">>, <<"2", "9">>),
                !.check_out = T(Y2024, <<"3">>, <<" ", "1">>),
                !.adults = <<" ", "1">>, !.children = <<"+", "1">>,
                !.special_requests = "late arrival", !.notes = "paid"]]

\* check_out before check_in, and check_out equal to check_in.
FormReversed ==
    [FormA EXCEPT !.val.check_in = T(Y2024, <<"0", "3">>, <<"0", "5">>),
                  !.val.check_out = T(Y2024, <<"0", "3">>, <<"0", "1">>)]

FormSameDay ==
    [FormB EXCEPT !.val.check_out = T(Y2024, <<"0", "2">>, <<"2", "9">>)]

\* No 29 February in 2023; an integer that is a word; a key left out.
FormBadDate ==
    [FormB EXCEPT !.val.check_out = T(Y2023, <<"0", "2">>, <<"2", "9">>)]

FormBadInt == [FormB EXCEPT !.val.children = <<"t", "w", "o">>]

FormMissing == [FormA EXCEPT !.present = @ \ {"adults"}]

Forms ==
    {FormA, FormB, FormReversed, FormSameDay, FormBadDate, FormBadInt, FormMissing}

\* request.form[key]: raises when the key is absent.
FormItem(form, key) ==
    IF key \in form.present THEN Ok(form.val[key]) ELSE Raise

\* request.form.get(key, default)
FormGet(form, key, default) ==
    IF key \in form.present THEN form.val[key] ELSE default

\* ------------------------------------------------------------------- state
VARIABLES
    store,      \* the committed rows of the reservation table, by id
    session,    \* per client session: the keys set in the Flask session
    clock,      \* the server clock (datetime.utcnow)
    req,        \* the request handled last
    resp        \* its response

vars == <<store, session, clock, req, resp>>

\* session.get(key): truthy exactly when the key is set (only True is stored).
SessionGet(sess, key) == key \in sess

SessionPop(sess, key) == sess \ {key}

SessionSet(sess, key) == sess \cup {key}

\* ---------------------------------------------------------------- responses
NoLoc == [endpoint |-> "", id |-> 0]

UrlFor(endpoint, id) == [endpoint |-> endpoint, id |-> id]

NoContext == [reservations |-> <<>>, is_readonly |-> FALSE, is_admin |-> FALSE]

Redirect(loc, flash) ==
    [status |-> 302, location |-> loc, template |-> "", flash |-> flash,
     context |-> NoContext, json |-> <<>>]

Render(template, flash, context) ==
    [status |-> 200, location |-> NoLoc, template |-> template, flash |-> flash,
     context |-> context, json |-> <<>>]

NotFound ==
    [status |-> 404, location |-> NoLoc, template |-> "", flash |-> "",
     context |-> NoContext, json |-> <<>>]

Jsonify(list) ==
    [status |-> 200, location |-> NoLoc, template |-> "", flash |-> "",
     context |-> NoContext, json |-> list]

\* What a handler leaves behind: the session, the table, the response.
Out(sess, st, r) == [session |-> sess, store |-> st, resp |-> r]

\* ------------------------------------------------------- Reservation rows
\* A Reservation object before its attributes are set.
Blank ==
    [id |-> 0, guest_name |-> "", platform |-> "", check_in |-> <<0, 0, 0>>,
     check_out |-> <<0, 0, 0>>, adults |-> 0, children |-> 0,
     special_requests |-> "", notes |-> "", created_at |-> 0]

EmptyTable == [i \in {} |-> Blank]

\* The attributes in the order the handlers evaluate them.
FieldOrder ==
    <<"guest_name", "platform", "check_in", "check_out", "adults", "children",
      "special_requests", "notes">>

\* The right-hand side the handlers compute for one attribute.
Convert(form, key) ==
    CASE key \in {"guest_name", "platform"} -> FormItem(form, key)
      [] key \in {"check_in", "check_out"} ->
            LET t == FormItem(form, key) IN IF t.ok THEN ParseDate(t.val) ELSE Raise
      [] key \in {"adults", "children"} ->
            LET t == FormItem(form, key) IN IF t.ok THEN ParseInt(t.val) ELSE Raise
      [] OTHER -> Ok(FormGet(form, key, ""))

\* Convert over the submitted forms, computed once.
Converted == [f \in Forms |-> [k \in ReservationKeys |-> Convert(f, k)]]

\* The attributes set one after the other on obj, from the k-th on, until one
\* raises: ok tells whether all were set, obj is the object as it then is.
RECURSIVE AssignFrom(_, _, _)
AssignFrom(obj, form, k) ==
    IF k > Len(FieldOrder) THEN [ok |-> TRUE, obj |-> obj]
    ELSE LET c == Converted[form][FieldOrder[k]]
         IN  IF ~c.ok THEN [ok |-> FALSE, obj |-> obj]
             ELSE AssignFrom([obj EXCEPT ![FieldOrder[k]] = c.val], form, k + 1)

\* Fault: the key taken from the number of rows instead of the largest key.
NextId_Count(st) == Cardinality(DOMAIN st) + 1

\* The key the table gives a new row: one more than the largest key in use.
NextId(st) ==
    IF DOMAIN st = {} THEN 1
    ELSE (CHOOSE i \in DOMAIN st : \A j \in DOMAIN st : j <= i) + 1

\* db.session.add(obj); db.session.commit(): the table assigns the key and
\* fills created_at with its default, the clock read at the insert.
Insert(st, obj, now) ==
    LET i == NextId(st)
    IN  [j \in DOMAIN st \cup {i} |->
           IF j = i THEN [obj EXCEPT !.id = i, !.created_at = now] ELSE st[j]]

\* db.session.commit() with the loaded row obj modified.
Update(st, obj) == [st EXCEPT ![obj.id] = obj]

\* Fault: the delete is never committed.
Delete_Uncommitted(st, obj) == st

\* db.session.delete(obj); db.session.commit()
Delete(st, obj) == [j \in DOMAIN st \ {obj.id} |-> st[j]]

\* Reservation.to_dict
to_dict(r) ==
    [id |-> r.id, guest_name |-> r.guest_name, platform |-> r.platform,
     check_in |-> IsoFormat(r.check_in), check_out |-> IsoFormat(r.check_out),
     adults |-> r.adults, children |-> r.children,
     special_requests |-> r.special_requests, notes |-> r.notes]

\* The orders in which a query can return the rows of st.
Orders(st) ==
    LET n == Cardinality(DOMAIN st)
    IN  {o \in [1..n -> DOMAIN st] : \A a, b \in 1..n : a # b => o[a] # o[b]}

\* Reservation.query.all(): every row, in no stated order.
QueryAll(st) == {[k \in DOMAIN o |-> st[o[k]]] : o \in Orders(st)}

\* Fault: the query without its order_by.
QueryOrderByCheckIn_Unordered(st) == QueryAll(st)

\* Reservation.query.order_by(Reservation.check_in).all()
QueryOrderByCheckIn(st) ==
    {l \in QueryAll(st) :
        \A a, b \in 1..Len(l) : a < b => DateLE(l[a].check_in, l[b].check_in)}

\* ------------------------------------------------------------------- gates
\* Fault: the admin gate lets every session through.
require_admin_Open(sess, st, inner) == inner

require_admin(sess, st, inner) ==
    IF ~SessionGet(sess, "admin_logged_in")
    THEN {Out(sess, st, Redirect(UrlFor("admin_login", 0),
                                 "Please login as admin to access this page"))}
    ELSE inner

check_readonly(sess, st, inner) ==
    IF SessionGet(sess, "readonly_mode")
    THEN {Out(sess, st, Redirect(UrlFor("index", 0),
              "You are in read-only mode. You cannot modify reservations."))}
    ELSE inner

\* ---------------------------------------------------------------- handlers
\* Each handler gives the set of outcomes of one request.

\* Fault: a successful login that leaves readonly_mode set.
admin_login_KeepsReadonly(sess, st, method, form) ==
    IF SessionGet(sess, "admin_logged_in")
    THEN {Out(sess, st, Redirect(UrlFor("index", 0), ""))}
    ELSE IF method = "POST"
    THEN IF FormItem(form, "password") = Ok(ADMIN_PASSWORD)
         THEN {Out(SessionSet(sess, "admin_logged_in"),
                   st, Redirect(UrlFor("index", 0), "Logged in as Admin"))}
         ELSE {Out(sess, st, Render("admin_login.html", "Invalid admin password",
                                    NoContext))}
    ELSE {Out(sess, st, Render("admin_login.html", "", NoContext))}

\* Fault: a refused password answered with a redirect back to the login page.
admin_login_FailRedirects(sess, st, method, form) ==
    IF SessionGet(sess, "admin_logged_in")
    THEN {Out(sess, st, Redirect(UrlFor("index", 0), ""))}
    ELSE IF method = "POST"
    THEN IF FormItem(form, "password") = Ok(ADMIN_PASSWORD)
         THEN {Out(SessionPop(SessionSet(sess, "admin_logged_in"), "readonly_mode"),
                   st, Redirect(UrlFor("index", 0), "Logged in as Admin"))}
         ELSE {Out(sess, st, Redirect(UrlFor("admin_login", 0),
                                      "Invalid admin password"))}
    ELSE {Out(sess, st, Render("admin_login.html", "", NoContext))}

admin_login(sess, st, method, form) ==
    IF SessionGet(sess, "admin_logged_in")
    THEN {Out(sess, st, Redirect(UrlFor("index", 0), ""))}
    ELSE IF method = "POST"
    THEN IF FormItem(form, "password") = Ok(ADMIN_PASSWORD)
         THEN {Out(SessionPop(SessionSet(sess, "admin_logged_in"), "readonly_mode"),
                   st, Redirect(UrlFor("index", 0), "Logged in as Admin"))}
         ELSE {Out(sess, st, Render("admin_login.html", "Invalid admin password",
                                    NoContext))}
    ELSE {Out(sess, st, Render("admin_login.html", "", NoContext))}

\* Fault: the logout pops the read-only flag instead of the administrator flag.
admin_logout_WrongKey(sess, st) ==
    {Out(SessionPop(sess, "readonly_mode"), st,
         Redirect(UrlFor("admin_login", 0), "Logged out from admin mode"))}

\* Fault: the logout clears the whole session.
admin_logout_Clear(sess, st) ==
    {Out({}, st, Redirect(UrlFor("admin_login", 0), "Logged out from admin mode"))}

admin_logout(sess, st) ==
    {Out(SessionPop(sess, "admin_logged_in"), st,
         Redirect(UrlFor("admin_login", 0), "Logged out from admin mode"))}

readonly_access(sess, st) ==
    {Out(SessionPop(SessionSet(sess, "readonly_mode"), "admin_logged_in"), st,
         Redirect(UrlFor("index", 0), "Viewing in read-only mode"))}

exit_readonly(sess, st) ==
    {Out(SessionPop(sess, "readonly_mode"), st,
         Redirect(UrlFor("login_select", 0), "Exited read-only mode"))}

\* The view-model of the listing and of the calendar.
ViewModel(sess, l) ==
    [reservations |-> l,
     is_readonly |-> SessionGet(sess, "readonly_mode"),
     is_admin |-> SessionGet(sess, "admin_logged_in")]

index(sess, st) ==
    IF ~SessionGet(sess, "admin_logged_in") /\ ~SessionGet(sess, "readonly_mode")
    THEN {Out(sess, st, Redirect(UrlFor("login_select", 0), ""))}
    ELSE {Out(sess, st, Render("index.html", "", ViewModel(sess, l))) :
             l \in QueryOrderByCheckIn(st)}

\* Fault: the mode selection sends the session without a flag to the listing.
login_select_Inverted(sess, st) ==
    IF SessionGet(sess, "admin_logged_in") \/ SessionGet(sess, "readonly_mode")
    THEN {Out(sess, st, Render("login_select.html", "", NoContext))}
    ELSE {Out(sess, st, Redirect(UrlFor("index", 0), ""))}

login_select(sess, st) ==
    IF SessionGet(sess, "admin_logged_in") \/ SessionGet(sess, "readonly_mode")
    THEN {Out(sess, st, Redirect(UrlFor("index", 0), ""))}
    ELSE {Out(sess, st, Render("login_select.html", "", NoContext))}

\* The body of add_reservation, inside the two gates.
add_body(sess, st, method, form, now) ==
    IF method = "POST"
    THEN LET c == AssignFrom(Blank, form, 1)
         IN  IF ~c.ok
             THEN {Out(sess, st, Redirect(UrlFor("add_reservation", 0),
                                          "Error adding reservation"))}
             ELSE IF DateLE(c.obj.check_out, c.obj.check_in)
             THEN {Out(sess, st, Redirect(UrlFor("add_reservation", 0),
                           "Check-out date must be after check-in date!"))}
             ELSE {Out(sess, Insert(st, c.obj, now),
                       Redirect(UrlFor("index", 0), "Reservation added successfully!"))}
    ELSE {Out(sess, st, Render("add_reservation.html", "", NoContext))}

\* Fault: the two decorators in the other order.
add_reservation_ReadonlyFirst(sess, st, method, form, now) ==
    check_readonly(sess, st,
        require_admin(sess, st, add_body(sess, st, method, form, now)))

add_reservation(sess, st, method, form, now) ==
    require_admin(sess, st,
        check_readonly(sess, st, add_body(sess, st, method, form, now)))

\* Fault: the row replaced by a new Reservation object under the same id.
edit_body_Recreate(sess, st, method, id, form) ==
    IF id \notin DOMAIN st THEN {Out(sess, st, NotFound)}
    ELSE IF method = "POST"
    THEN LET c == AssignFrom([Blank EXCEPT !.id = id], form, 1)
         IN  IF ~c.ok
             THEN {Out(sess, st, Redirect(UrlFor("edit_reservation", id),
                                          "Error updating reservation"))}
             ELSE IF DateLE(c.obj.check_out, c.obj.check_in)
             THEN {Out(sess, st, Redirect(UrlFor("edit_reservation", id),
                           "Check-out date must be after check-in date!"))}
             ELSE {Out(sess, Update(st, c.obj),
                       Redirect(UrlFor("index", 0), "Reservation updated successfully!"))}
    ELSE {Out(sess, st, Render("edit_reservation.html", "",
                               [NoContext EXCEPT !.reservations = <<st[id]>>]))}

\* Fault: the attributes assigned before the exception are committed.
edit_body_PartialWrite(sess, st, method, id, form) ==
    IF id \notin DOMAIN st THEN {Out(sess, st, NotFound)}
    ELSE IF method = "POST"
    THEN LET c == AssignFrom(st[id], form, 1)
         IN  IF ~c.ok
             THEN {Out(sess, Update(st, c.obj),
                       Redirect(UrlFor("edit_reservation", id),
                                "Error updating reservation"))}
             ELSE IF DateLE(c.obj.check_out, c.obj.check_in)
             THEN {Out(sess, st, Redirect(UrlFor("edit_reservation", id),
                           "Check-out date must be after check-in date!"))}
             ELSE {Out(sess, Update(st, c.obj),
                       Redirect(UrlFor("index", 0), "Reservation updated successfully!"))}
    ELSE {Out(sess, st, Render("edit_reservation.html", "",
                               [NoContext EXCEPT !.reservations = <<st[id]>>]))}

\* Fault: the modified row is written before the dates are compared.
edit_body_CommitFirst(sess, st, method, id, form) ==
    IF id \notin DOMAIN st THEN {Out(sess, st, NotFound)}
    ELSE IF method = "POST"
    THEN LET c == AssignFrom(st[id], form, 1)
         IN  IF ~c.ok
             THEN {Out(sess, st, Redirect(UrlFor("edit_reservation", id),
                                          "Error updating reservation"))}
             ELSE IF DateLE(c.obj.check_out, c.obj.check_in)
             THEN {Out(sess, Update(st, c.obj),
                       Redirect(UrlFor("edit_reservation", id),
                                "Check-out date must be after check-in date!"))}
             ELSE {Out(sess, Update(st, c.obj),
                       Redirect(UrlFor("index", 0), "Reservation updated successfully!"))}
    ELSE {Out(sess, st, Render("edit_reservation.html", "",
                               [NoContext EXCEPT !.reservations = <<st[id]>>]))}

\* The body of edit_reservation, inside the two gates.  The loaded row is
\* modified in memory; only commit() writes it to the table.
edit_body(sess, st, method, id, form) ==
    IF id \notin DOMAIN st THEN {Out(sess, st, NotFound)}
    ELSE IF method = "POST"
    THEN LET c == AssignFrom(st[id], form, 1)
         IN  IF ~c.ok
             THEN {Out(sess, st, Redirect(UrlFor("edit_reservation", id),
                                          "Error updating reservation"))}
             ELSE IF DateLE(c.obj.check_out, c.obj.check_in)
             THEN {Out(sess, st, Redirect(UrlFor("edit_reservation", id),
                           "Check-out date must be after check-in date!"))}
             ELSE {Out(sess, Update(st, c.obj),
                       Redirect(UrlFor("index", 0), "Reservation updated successfully!"))}
    ELSE {Out(sess, st, Render("edit_reservation.html", "",
                               [NoContext EXCEPT !.reservations = <<st[id]>>]))}

edit_reservation(sess, st, method, id, form) ==
    require_admin(sess, st,
        check_readonly(sess, st, edit_body(sess, st, method, id, form)))

\* Fault: an unknown id answered with a redirect to the listing.
delete_body_MissingToListing(sess, st, id) ==
    IF id \notin DOMAIN st
    THEN {Out(sess, st, Redirect(UrlFor("index", 0), "Error deleting reservation"))}
    ELSE {Out(sess, Delete(st, st[id]),
              Redirect(UrlFor("index", 0), "Reservation deleted successfully!"))}

delete_body(sess, st, id) ==
    IF id \notin DOMAIN st THEN {Out(sess, st, NotFound)}
    ELSE {Out(sess, Delete(st, st[id]),
              Redirect(UrlFor("index", 0), "Reservation deleted successfully!"))}

\* Fault: the delete route without the admin gate.
delete_reservation_NoAdminGate(sess, st, id) ==
    check_readonly(sess, st, delete_body(sess, st, id))

delete_reservation(sess, st, id) ==
    require_admin(sess, st, check_readonly(sess, st, delete_body(sess, st, id)))

\* Fault: the JSON endpoint behind the same access check as the listing.
api_reservations_Gated(sess, st) ==
    IF ~SessionGet(sess, "admin_logged_in") /\ ~SessionGet(sess, "readonly_mode")
    THEN {Out(sess, st, Redirect(UrlFor("login_select", 0), ""))}
    ELSE {Out(sess, st, Jsonify([k \in DOMAIN l |-> to_dict(l[k])])) : l \in QueryAll(st)}

api_reservations(sess, st) ==
    {Out(sess, st, Jsonify([k \in DOMAIN l |-> to_dict(l[k])])) : l \in QueryAll(st)}

calendar_view(sess, st) ==
    IF ~SessionGet(sess, "admin_logged_in") /\ ~SessionGet(sess, "readonly_mode")
    THEN {Out(sess, st, Redirect(UrlFor("login_select", 0), ""))}
    ELSE {Out(sess, st, Render("calendar.html", "", ViewModel(sess, l))) :
             l \in QueryOrderByCheckIn(st)}

\* ----------------------------------------------------------------- actions
NoRequest == [sid |-> "", endpoint |-> "", method |-> "", id |-> 0, form |-> NoForm]

NoResponse ==
    [status |-> 0, location |-> NoLoc, template |-> "", flash |-> "",
     context |-> NoContext, json |-> <<>>]

Init ==
    /\ store = EmptyTable
    /\ session = [s \in Sessions |-> {}]
    /\ clock = 0
    /\ req = NoRequest
    /\ resp = NoResponse

\* One request of session s answered with one of the handler's outcomes.
Handle(s, endpoint, method, id, form, outcomes) ==
    \E o \in outcomes :
        /\ DOMAIN o.store \subseteq Ids
        /\ session' = [session EXCEPT ![s] = o.session]
        /\ store' = o.store
        /\ resp' = o.resp
        /\ req' = [sid |-> s, endpoint |-> endpoint, method |-> method, id |-> id,
                   form |-> form]
        /\ UNCHANGED clock

LoginForms == {NoForm} \cup {PasswordForm(p) : p \in Passwords}

AdminLoginGet ==
    \E s \in Sessions :
        Handle(s, "admin_login", "GET", 0, NoForm,
               admin_login(session[s], store, "GET", NoForm))

AdminLoginPost ==
    \E s \in Sessions, f \in LoginForms :
        Handle(s, "admin_login", "POST", 0, f, admin_login(session[s], store, "POST", f))

AdminLogout ==
    \E s \in Sessions :
        Handle(s, "admin_logout", "GET", 0, NoForm, admin_logout(session[s], store))

ReadonlyAccess ==
    \E s \in Sessions :
        Handle(s, "readonly_access", "GET", 0, NoForm, readonly_access(session[s], store))

ExitReadonly ==
    \E s \in Sessions :
        Handle(s, "exit_readonly", "GET", 0, NoForm, exit_readonly(session[s], store))

Index ==
    \E s \in Sessions : Handle(s, "index", "GET", 0, NoForm, index(session[s], store))

LoginSelect ==
    \E s \in Sessions :
        Handle(s, "login_select", "GET", 0, NoForm, login_select(session[s], store))

AddGet ==
    \E s \in Sessions :
        Handle(s, "add_reservation", "GET", 0, NoForm,
               add_reservation(session[s], store, "GET", NoForm, clock))

AddPost ==
    \E s \in Sessions, f \in Forms :
        Handle(s, "add_reservation", "POST", 0, f,
               add_reservation(session[s], store, "POST", f, clock))

EditGet ==
    \E s \in Sessions, i \in Ids :
        Handle(s, "edit_reservation", "GET", i, NoForm,
               edit_reservation(session[s], store, "GET", i, NoForm))

EditPost ==
    \E s \in Sessions, i \in Ids, f \in Forms :
        Handle(s, "edit_reservation", "POST", i, f,
               edit_reservation(session[s], store, "POST", i, f))

DeleteReservation ==
    \E s \in Sessions, i \in Ids :
        Handle(s, "delete_reservation", "GET", i, NoForm,
               delete_reservation(session[s], store, i))

ApiReservations ==
    \E s \in Sessions :
        Handle(s, "api_reservations", "GET", 0, NoForm,
               api_reservations(session[s], store))

CalendarView ==
    \E s \in Sessions :
        Handle(s, "calendar_view", "GET", 0, NoForm, calendar_view(session[s], store))

Next ==
    \/ AdminLoginGet \/ AdminLoginPost \/ AdminLogout
    \/ ReadonlyAccess \/ ExitReadonly
    \/ Index \/ LoginSelect \/ CalendarView \/ ApiReservations
    \/ AddGet \/ AddPost \/ EditGet \/ EditPost \/ DeleteReservation

Spec == Init /\ [][Next]_vars

\* The server clock advances between requests.
Tick ==
    /\ clock < MaxClock
    /\ clock' = clock + 1
    /\ UNCHANGED <<store, session, req, resp>>

\* The requests of one session, with the two well-formed forms, while the
\* clock advances.
NextClock ==
    \/ Tick
    \/ /\ Next
       /\ req'.sid = "s1"
       /\ req'.form \in LoginForms \cup {FormA, FormB}

SpecClock == Init /\ [][NextClock]_vars

\* ================================================================== claims
IsAdmin(s) == "admin_logged_in" \in session[s]

IsReadonly(s) == "readonly_mode" \in session[s]

IsAnonymous(s) == session[s] = {}

Mutating == {"add_reservation", "edit_reservation", "delete_reservation"}

ToListing(r) == r.status = 302 /\ r.location = UrlFor("index", 0)

\* The step handles a request of session s for endpoint e.
Requests(s, e) == req'.sid = s /\ req'.endpoint = e

\* ---- C1
\* C1: in every reachable state every stored reservation has its check_out
\* strictly after its check_in.
C1_StoredDatesOrdered ==
    \A i \in DOMAIN store : DateLT(store[i].check_in, store[i].check_out)

\* A row that an edit has rewritten, next to another row.
C1_Witness ==
    /\ req.endpoint = "edit_reservation"
    /\ resp.flash = "Reservation updated successfully!"
    /\ Cardinality(DOMAIN store) = 2

\* ---- C2
\* C2: a request of a read-only session for /add, /edit/{id} or /delete/{id}
\* is answered with a redirect to the listing and leaves the table unchanged.
C2_ReadonlyRedirectedToListing ==
    [][\A s \in Sessions, e \in Mutating :
          IsReadonly(s) /\ Requests(s, e) => ToListing(resp') /\ store' = store]_vars

\* ---- C3
\* C3: a request of an anonymous session for /, /calendar, /add, /edit/{id} or
\* /delete/{id} is answered with a redirect to the mode selection or to the
\* admin login, carries no reservation and no form, and leaves the table
\* unchanged.
C3_AnonymousRedirected ==
    [][\A s \in Sessions, e \in Mutating \cup {"index", "calendar_view"} :
          IsAnonymous(s) /\ Requests(s, e) =>
              /\ resp'.status = 302
              /\ resp'.location \in {UrlFor("login_select", 0), UrlFor("admin_login", 0)}
              /\ resp'.template = ""
              /\ resp'.context = NoContext
              /\ resp'.json = <<>>
              /\ store' = store]_vars

\* An anonymous session turned away from the edit form of a stored row.
C3_Witness ==
    /\ req.endpoint = "edit_reservation"
    /\ req.id \in DOMAIN store
    /\ session[req.sid] = {}
    /\ resp.location = UrlFor("admin_login", 0)

\* ---- C4
\* C4: no session ever has admin_logged_in and readonly_mode both set; a
\* /readonly request leaves the session read-only and not admin, and a login
\* POST with the configured password leaves it admin and not read-only.
C4_ModesExclusive ==
    /\ [](\A s \in Sessions : ~(IsAdmin(s) /\ IsReadonly(s)))
    /\ [][\A s \in Sessions :
            /\ Requests(s, "readonly_access") => session'[s] = {"readonly_mode"}
            /\ (/\ Requests(s, "admin_login")
                /\ req'.method = "POST"
                /\ req'.form = PasswordForm(ADMIN_PASSWORD))
               => session'[s] = {"admin_logged_in"}]_vars

\* A session logged in as admin while the other one is read-only.
C4_Witness ==
    /\ req.endpoint = "admin_login"
    /\ resp.flash = "Logged in as Admin"
    /\ session[req.sid] = {"admin_logged_in"}
    /\ \E t \in Sessions : session[t] = {"readonly_mode"}

\* ---- C5
\* The submitted dates both parse and check_out is not after check_in.
DatesNotOrdered(form) ==
    /\ {"check_in", "check_out"} \subseteq form.present
    /\ ParseDate(form.val.check_in).ok
    /\ ParseDate(form.val.check_out).ok
    /\ ~DateLT(ParseDate(form.val.check_in).val, ParseDate(form.val.check_out).val)

\* C5: an add POST, or an edit POST for a stored row, by an admin whose
\* submitted check_out is not after check_in leaves the table as it was
\* and redirects to the form it came from (/add, or /edit/{id} with the
\* same id).
C5_BadOrderRejected ==
    [][\A s \in Sessions :
          /\ IsAdmin(s)
          /\ req'.method = "POST"
          /\ DatesNotOrdered(req'.form)
          /\ \/ Requests(s, "add_reservation")
             \/ Requests(s, "edit_reservation") /\ req'.id \in DOMAIN store
          => /\ store' = store
             /\ resp'.status = 302
             /\ resp'.location = UrlFor(req'.endpoint, req'.id)]_vars

\* An edit of a stored row refused for equal dates.
C5_Witness ==
    /\ req.endpoint = "edit_reservation"
    /\ req.method = "POST"
    /\ req.form = FormSameDay
    /\ req.id \in DOMAIN store
    /\ resp.flash = "Check-out date must be after check-in date!"

\* ---- C6
\* The values the two well-formed forms submit.
SubmittedA ==
    [guest_name |-> "A. Smith", platform |-> "Airbnb", check_in |-> <<2024, 3, 1>>,
     check_out |-> <<2024, 3, 5>>, adults |-> 2, children |-> 0,
     special_requests |-> "", notes |-> ""]

SubmittedB ==
    [guest_name |-> "B. Jones", platform |-> "Booking", check_in |-> <<2024, 2, 29>>,
     check_out |-> <<2024, 3, 1>>, adults |-> 1, children |-> 1,
     special_requests |-> "late arrival", notes |-> "paid"]

Submitted(form) == IF form = FormA THEN SubmittedA ELSE SubmittedB

\* The attributes of a row other than its id.
Fields(r) ==
    [guest_name |-> r.guest_name, platform |-> r.platform, check_in |-> r.check_in,
     check_out |-> r.check_out, adults |-> r.adults, children |-> r.children,
     special_requests |-> r.special_requests, notes |-> r.notes]

Rows(l) == {l[k] : k \in DOMAIN l}

\* C6: an add POST by an admin with parsable inputs and check_out after
\* check_in leaves exactly one more row, under an id no row had, with the
\* submitted values; the rows already stored are unchanged and every listing
\* requested next contains the new row.
C6_AddStoresSubmitted ==
    [][\A s \in Sessions :
          /\ IsAdmin(s)
          /\ Requests(s, "add_reservation")
          /\ req'.method = "POST"
          /\ req'.form \in {FormA, FormB}
          => \E i \in DOMAIN store' \ DOMAIN store :
                /\ DOMAIN store' = DOMAIN store \cup {i}
                /\ \A j \in DOMAIN store : store'[j] = store[j]
                /\ store'[i].id = i
                /\ Fields(store'[i]) = Submitted(req'.form)
                /\ \A o \in index(session'[s], store') :
                      store'[i] \in Rows(o.resp.context.reservations)
                /\ ToListing(resp')]_vars

\* The unpadded form added as a second row.
C6_Witness ==
    /\ req.endpoint = "add_reservation"
    /\ req.form = FormB
    /\ resp.flash = "Reservation added successfully!"
    /\ DOMAIN store = {1, 2}
    /\ Fields(store[1]) = SubmittedA
    /\ Fields(store[2]) = SubmittedB

\* ---- C7
\* C7: the table changes only in a step that handles an add, edit or delete
\* request of a session whose admin_logged_in is set.
C7_OnlyAdminsWrite ==
    [][store' # store =>
          /\ req'.sid \in Sessions
          /\ req'.endpoint \in Mutating
          /\ IsAdmin(req'.sid)]_vars

\* A delete by the admin session while the other session is read-only.
C7_Witness ==
    /\ req.endpoint = "delete_reservation"
    /\ resp.flash = "Reservation deleted successfully!"
    /\ store # EmptyTable
    /\ \E t \in Sessions \ {req.sid} : session[t] = {"readonly_mode"}

\* ---- C8
\* C8: a delete request by an admin for a stored id removes that row and no
\* other, redirects to the listing, and neither the listing nor
\* /api/reservations requested next has a row with that id.
C8_DeleteRemovesRow ==
    [][\A s \in Sessions :
          /\ IsAdmin(s)
          /\ Requests(s, "delete_reservation")
          /\ req'.id \in DOMAIN store
          => /\ DOMAIN store' = DOMAIN store \ {req'.id}
             /\ \A j \in DOMAIN store' : store'[j] = store[j]
             /\ ToListing(resp')
             /\ \A o \in index(session'[s], store') :
                   \A r \in Rows(o.resp.context.reservations) : r.id # req'.id
             /\ \A o \in api_reservations(session'[s], store') :
                   \A r \in Rows(o.resp.json) : r.id # req'.id]_vars

\* The first of two rows deleted.
C8_Witness ==
    /\ req.endpoint = "delete_reservation"
    /\ req.id = 1
    /\ resp.flash = "Reservation deleted successfully!"
    /\ DOMAIN store = {2}

\* ---- C9
\* C9: /api/reservations, whatever the flags of the session, answers 200 with
\* one entry for each stored row and no other entry, and changes neither the
\* table nor any session.
C9_ApiListsEveryRow ==
    [][\A s \in Sessions :
          Requests(s, "api_reservations")
          => /\ resp'.status = 200
             /\ resp'.location = NoLoc
             /\ Len(resp'.json) = Cardinality(DOMAIN store)
             /\ \A i \in DOMAIN store :
                   Cardinality({k \in DOMAIN resp'.json : resp'.json[k].id = i}) = 1
             /\ store' = store
             /\ session' = session]_vars

\* An anonymous session given both stored rows.
C9_Witness ==
    /\ req.endpoint = "api_reservations"
    /\ session[req.sid] = {}
    /\ Len(resp.json) = 2
    /\ Cardinality(DOMAIN store) = 2

\* ---- C10
\* C10: an edit or delete request by an admin for an id that is not stored is
\* answered 404 and changes neither the table nor any session.
C10_UnknownIdNotFound ==
    [][\A s \in Sessions, e \in {"edit_reservation", "delete_reservation"} :
          /\ IsAdmin(s)
          /\ Requests(s, e)
          /\ req'.id \notin DOMAIN store
          => /\ resp'.status = 404
             /\ store' = store
             /\ session' = session]_vars

\* A delete of an id that is gone, with another row still stored.
C10_Witness ==
    /\ req.endpoint = "delete_reservation"
    /\ resp.status = 404
    /\ req.id \notin DOMAIN store
    /\ store # EmptyTable

\* ---- C11
\* C11: a POST to /admin-login with the configured password leaves the
\* session admin and not read-only and redirects to the listing; a POST with
\* any other password, or with none, from a session that is not admin renders
\* the login form again (200, no redirect) and leaves every session as it was.
C11_LoginOutcome ==
    [][\A s \in Sessions :
          Requests(s, "admin_login") /\ req'.method = "POST"
          => /\ req'.form = PasswordForm(ADMIN_PASSWORD)
                => /\ session'[s] = {"admin_logged_in"}
                   /\ ToListing(resp')
             /\ req'.form # PasswordForm(ADMIN_PASSWORD) /\ ~IsAdmin(s)
                => /\ resp'.status = 200
                   /\ resp'.template = "admin_login.html"
                   /\ resp'.location = NoLoc
                   /\ session' = session]_vars

\* A read-only session whose guess was refused.
C11_Witness ==
    /\ req.endpoint = "admin_login"
    /\ req.form = PasswordForm("guess")
    /\ resp.flash = "Invalid admin password"
    /\ session[req.sid] = {"readonly_mode"}

\* ---- C12
\* C12: an edit POST by an admin with parsable inputs and check_out after
\* check_in, for a stored id, gives that row the eight submitted values,
\* keeps its id and its created_at, keeps every other row and the set of
\* stored ids, and redirects to the listing.
C12_EditOverwritesFields ==
    [][\A s \in Sessions :
          /\ IsAdmin(s)
          /\ Requests(s, "edit_reservation")
          /\ req'.method = "POST"
          /\ req'.form \in {FormA, FormB}
          /\ req'.id \in DOMAIN store
          => /\ DOMAIN store' = DOMAIN store
             /\ Fields(store'[req'.id]) = Submitted(req'.form)
             /\ store'[req'.id].id = req'.id
             /\ store'[req'.id].created_at = store[req'.id].created_at
             /\ \A j \in DOMAIN store \ {req'.id} : store'[j] = store[j]
             /\ ToListing(resp')]_vars

\* A row inserted after the clock advanced, rewritten with the other form,
\* next to a row inserted before.
C12_Witness ==
    /\ req.endpoint = "edit_reservation"
    /\ req.form = FormA
    /\ resp.flash = "Reservation updated successfully!"
    /\ req.id = 2
    /\ DOMAIN store = {1, 2}
    /\ Fields(store[2]) = SubmittedA
    /\ store[2].created_at = 1
    /\ store[1].created_at = 0
    /\ Fields(store[1]) = SubmittedB

\* ---- C13
\* The forms with a date or a count that does not parse, or a required key
\* left out.
Unparsable == {FormBadDate, FormBadInt, FormMissing}

\* C13: an add POST, or an edit POST for a stored row, by an admin with such
\* a form leaves the table exactly as it was, whatever edit_reservation had
\* assigned to the loaded row before the failure, and redirects to the form
\* it came from.
C13_ParseFailureWritesNothing ==
    [][\A s \in Sessions :
          /\ IsAdmin(s)
          /\ req'.method = "POST"
          /\ req'.form \in Unparsable
          /\ \/ Requests(s, "add_reservation")
             \/ Requests(s, "edit_reservation") /\ req'.id \in DOMAIN store
          => /\ store' = store
             /\ resp'.status = 302
             /\ resp'.location = UrlFor(req'.endpoint, req'.id)]_vars

\* An edit that had assigned another guest, platform, dates and adults to the
\* loaded row before its children count failed to parse.
C13_Witness ==
    /\ req.endpoint = "edit_reservation"
    /\ req.method = "POST"
    /\ req.form = FormBadInt
    /\ resp.flash = "Error updating reservation"
    /\ req.id \in DOMAIN store
    /\ Fields(store[req.id]) = SubmittedA

\* ---- C14
AdminNotice == "Please login as admin to access this page"

ReadonlyNotice == "You are in read-only mode. You cannot modify reservations."

\* The outcomes of the three gated routes for a session holding the keys sess.
Gated(sess) ==
    add_reservation(sess, store, "GET", NoForm, clock)
      \cup UNION {edit_reservation(sess, store, "GET", i, NoForm) : i \in Ids}
      \cup UNION {delete_reservation(sess, store, i) : i \in Ids}

\* The admin gate decides first and on admin_logged_in alone, the read-only
\* gate second and on readonly_mode alone, whatever keys the session holds.
GatesInOrder ==
    \A sess \in SUBSET {"admin_logged_in", "readonly_mode"} :
       \A o \in Gated(sess) :
          /\ "admin_logged_in" \notin sess
             => o.resp = Redirect(UrlFor("admin_login", 0), AdminNotice)
          /\ "admin_logged_in" \in sess /\ "readonly_mode" \in sess
             => o.resp = Redirect(UrlFor("index", 0), ReadonlyNotice)
          /\ "admin_logged_in" \in sess /\ "readonly_mode" \notin sess
             => o.resp.flash \notin {AdminNotice, ReadonlyNotice}

\* C14: on /add, /edit/{id} and /delete/{id} the admin gate is applied first
\* and the read-only gate second, each on its own flag; and no request of a
\* session that is admin is ever answered by the read-only gate.
C14_GatesCompose ==
    /\ []GatesInOrder
    /\ [][\A s \in Sessions, e \in Mutating :
            IsAdmin(s) /\ Requests(s, e)
            => resp'.flash \notin {AdminNotice, ReadonlyNotice}]_vars

\* An admin given the add form while the other session is read-only.
C14_Witness ==
    /\ req.endpoint = "add_reservation"
    /\ req.method = "GET"
    /\ resp.template = "add_reservation.html"
    /\ session[req.sid] = {"admin_logged_in"}
    /\ \E t \in Sessions : session[t] = {"readonly_mode"}

\* ---- C15
\* The response without the name of its template.
Untitled(o) == [o.resp EXCEPT !.template = ""]

\* In every state the two handlers decide and fetch alike for every session.
ListingAndCalendarAgree ==
    \A s \in Sessions :
       {Untitled(o) : o \in index(session[s], store)}
         = {Untitled(o) : o \in calendar_view(session[s], store)}

\* C15: / and /calendar redirect a session with neither flag to the mode
\* selection; otherwise they render every stored row exactly once, in
\* ascending check_in order, with the two flags of the session; and the two
\* handlers decide alike and fetch the same rows in every state.
C15_ListingAndCalendar ==
    /\ []ListingAndCalendarAgree
    /\ [][\A s \in Sessions, e \in {"index", "calendar_view"} :
            Requests(s, e)
            => IF IsAnonymous(s)
               THEN resp' = Redirect(UrlFor("login_select", 0), "")
               ELSE LET l == resp'.context.reservations
                    IN  /\ resp'.status = 200
                        /\ resp'.template =
                              (IF e = "index" THEN "index.html" ELSE "calendar.html")
                        /\ Len(l) = Cardinality(DOMAIN store)
                        /\ \A i \in DOMAIN store :
                              Cardinality({k \in DOMAIN l : l[k] = store[i]}) = 1
                        /\ \A a, b \in DOMAIN l :
                              a < b => ~DateLT(l[b].check_in, l[a].check_in)
                        /\ resp'.context.is_admin = IsAdmin(s)
                        /\ resp'.context.is_readonly = IsReadonly(s)]_vars

\* A read-only session shown the calendar, the row stored second first.
C15_Witness ==
    /\ req.endpoint = "calendar_view"
    /\ session[req.sid] = {"readonly_mode"}
    /\ Len(resp.context.reservations) = 2
    /\ resp.context.reservations[1].id = 2
    /\ resp.context.reservations[2].id = 1
    /\ resp.context.is_readonly

\* ---- C16
\* The most redirects a client follows after one request.
MaxHops == 2

\* The endpoints the handlers redirect to.
RedirectTargets ==
    {"index", "login_select", "admin_login", "add_reservation", "edit_reservation"}

\* What a GET of the location of a redirect produces.
Get(sess, st, loc) ==
    CASE loc.endpoint = "index" -> index(sess, st)
      [] loc.endpoint = "login_select" -> login_select(sess, st)
      [] loc.endpoint = "admin_login" -> admin_login(sess, st, "GET", NoForm)
      [] loc.endpoint = "add_reservation" ->
            add_reservation(sess, st, "GET", NoForm, clock)
      [] loc.endpoint = "edit_reservation" ->
            edit_reservation(sess, st, "GET", loc.id, NoForm)

IsRedirect(r) == r.status = 302

\* A rendered page or a not-found response.
IsPage(r) == (r.status = 200 /\ r.template # "") \/ r = NotFound

\* Followed from response r, every chain reaches a page in at most n redirects.
RECURSIVE EndsWithin(_, _, _, _)
EndsWithin(sess, st, r, n) ==
    IF IsRedirect(r)
    THEN /\ n > 0
         /\ r.location.endpoint \in RedirectTargets
         /\ \A o \in Get(sess, st, r.location) :
               EndsWithin(o.session, o.store, o.resp, n - 1)
    ELSE IsPage(r)

\* C16: the response to every request is the JSON listing or, followed
\* through its redirects, reaches a rendered page or a not-found response in
\* at most MaxHops redirects.
C16_RedirectsEnd ==
    req # NoRequest
    => \/ req.endpoint = "api_reservations" /\ resp.status = 200
       \/ EndsWithin(session[req.sid], store, resp, MaxHops)

\* An administrator left read-only mode: mode selection, then the listing.
C16_Witness ==
    /\ req.endpoint = "exit_readonly"
    /\ session[req.sid] = {"admin_logged_in"}
    /\ IsRedirect(resp)
    /\ ~EndsWithin(session[req.sid], store, resp, 1)
    /\ EndsWithin(session[req.sid], store, resp, 2)

\* ---- C17
\* The request of the step is a POST to /admin-login by s with the configured
\* password.
LoginPost(s) ==
    /\ Requests(s, "admin_login")
    /\ req'.method = "POST"
    /\ "password" \in req'.form.present
    /\ req'.form.val.password = ADMIN_PASSWORD

\* C17: admin_logged_in of a session turns on only in a POST to /admin-login
\* with the configured password; /admin-logout and /readonly leave it off;
\* and a request of a session whose flag is off leaves the store as it was.
\* Hence after /admin-logout or /readonly the session changes nothing in the
\* store until such a POST.
C17_OnlyLoginGrantsWrite ==
    [][\A s \in Sessions :
          /\ (~IsAdmin(s) /\ "admin_logged_in" \in session'[s]) => LoginPost(s)
          /\ (Requests(s, "admin_logout") \/ Requests(s, "readonly_access"))
             => "admin_logged_in" \notin session'[s]
          /\ (~IsAdmin(s) /\ req'.sid = s) => store' = store]_vars

\* Every session has left administrator mode, and a delete of a row written
\* before was turned away.
C17_Witness ==
    /\ \A s \in Sessions : "admin_logged_in" \notin session[s]
    /\ req.endpoint = "delete_reservation"
    /\ req.id \in DOMAIN store
    /\ resp = Redirect(UrlFor("admin_login", 0), AdminNotice)

\* ---- C18
SessionEndpoints ==
    {"admin_login", "admin_logout", "readonly_access", "exit_readonly",
     "login_select"}

DataEndpoints ==
    {"index", "calendar_view", "add_reservation", "edit_reservation",
     "delete_reservation", "api_reservations"}

\* C18: the session endpoints leave the stored reservations as they were, the
\* data endpoints leave both flags of every session as they were,
\* /admin-logout leaves readonly_mode and /exit-readonly leaves
\* admin_logged_in as it was.
C18_SessionAndStoreApart ==
    [][\A s \in Sessions :
          /\ (\E e \in SessionEndpoints : Requests(s, e)) => store' = store
          /\ (\E e \in DataEndpoints : Requests(s, e)) => session' = session
          /\ Requests(s, "admin_logout")
             => ("readonly_mode" \in session'[s]) = IsReadonly(s)
          /\ Requests(s, "exit_readonly")
             => ("admin_logged_in" \in session'[s]) = IsAdmin(s)]_vars

\* A read-only session logged out of administrator mode over a filled store.
C18_Witness ==
    /\ req.endpoint = "admin_logout"
    /\ session[req.sid] = {"readonly_mode"}
    /\ store # EmptyTable

====
